---- MODULE Spec2Model ----
(***************************************************************************)
(* One-dimensional D1Q3 lattice Boltzmann solver (src/1d_lbm.py).          *)
(*                                                                         *)
(* The solver's arrays hold binary floating-point numbers.  They are       *)
(* modelled as binary floats with a mantissa of Precision bits (instead of *)
(* 53), round-to-nearest-even, an unbounded exponent, a single zero, two   *)
(* infinities and one NaN.                                                 *)
(***************************************************************************)
EXTENDS Integers, Sequences, FiniteSets, TLC

\* ------------------------------------------------------------------------
\* Bounds of the model
\* ------------------------------------------------------------------------
Precision == 10
ExpTerms == 8
MaxNx == 4
MaxNt == 2
MaxCalls == 2

\* ------------------------------------------------------------------------
\* Floating-point arithmetic
\* ------------------------------------------------------------------------
NaN == [cls |-> "nan", m |-> 0, e |-> 0]
PInf == [cls |-> "inf", m |-> 1, e |-> 0]
NInf == [cls |-> "inf", m |-> -1, e |-> 0]
Zero == [cls |-> "num", m |-> 0, e |-> 0]

IsFinite(x) == x.cls = "num"
IsNaN(x) == x.cls = "nan"

Abs(k) == IF k < 0 THEN -k ELSE k
Sign(k) == IF k < 0 THEN -1 ELSE IF k > 0 THEN 1 ELSE 0

RECURSIVE BitLen(_)
BitLen(k) == IF k = 0 THEN 0 ELSE 1 + BitLen(k \div 2)

\* The float nearest to mm * 2^ee (ties to the even mantissa).
Round(mm, ee) ==
    IF mm = 0 THEN Zero
    ELSE LET a == Abs(mm)
             len == BitLen(a)
         IN IF len <= Precision
            THEN [cls |-> "num", m |-> mm * 2^(Precision - len), e |-> ee - (Precision - len)]
            ELSE LET s == len - Precision
                     q == a \div 2^s
                     r == a % 2^s
                     half == 2^(s - 1)
                     up == r > half \/ (r = half /\ q % 2 = 1)
                     q1 == IF up THEN q + 1 ELSE q
                 IN IF q1 = 2^Precision
                    THEN [cls |-> "num", m |-> Sign(mm) * 2^(Precision - 1), e |-> ee + s + 1]
                    ELSE [cls |-> "num", m |-> Sign(mm) * q1, e |-> ee + s]

FromInt(k) == Round(k, 0)
One == FromInt(1)

FSign(x) == Sign(x.m)

FNeg(x) == [x EXCEPT !.m = -x.m]

FAdd(x, y) ==
    IF IsNaN(x) \/ IsNaN(y) THEN NaN
    ELSE IF ~IsFinite(x) /\ ~IsFinite(y) THEN (IF x = y THEN x ELSE NaN)
    ELSE IF ~IsFinite(x) THEN x
    ELSE IF ~IsFinite(y) THEN y
    ELSE IF x.m = 0 THEN y
    ELSE IF y.m = 0 THEN x
    ELSE LET hi == IF x.e >= y.e THEN x ELSE y
             lo == IF x.e >= y.e THEN y ELSE x
             d == hi.e - lo.e
         IN IF d <= Precision + 2
            THEN Round(hi.m * 2^d + lo.m, lo.e)
            ELSE Round(hi.m * 8 + Sign(lo.m), hi.e - 3)

FSub(x, y) == FAdd(x, FNeg(y))

FMul(x, y) ==
    IF IsNaN(x) \/ IsNaN(y) THEN NaN
    ELSE IF ~IsFinite(x) \/ ~IsFinite(y)
         THEN (IF FSign(x) * FSign(y) = 0 THEN NaN
               ELSE IF FSign(x) * FSign(y) > 0 THEN PInf ELSE NInf)
    ELSE Round(x.m * y.m, x.e + y.e)

FDiv(x, y) ==
    IF IsNaN(x) \/ IsNaN(y) THEN NaN
    ELSE IF ~IsFinite(x)
         THEN (IF ~IsFinite(y) THEN NaN
               ELSE IF FSign(x) * FSign(y) >= 0 THEN PInf ELSE NInf)
    ELSE IF ~IsFinite(y) THEN Zero
    ELSE IF y.m = 0
         THEN (IF x.m = 0 THEN NaN ELSE IF x.m > 0 THEN PInf ELSE NInf)
    ELSE LET num == Abs(x.m) * 2^(Precision + 2)
             q == num \div Abs(y.m)
             sticky == IF num % Abs(y.m) = 0 THEN 0 ELSE 1
         IN Round(Sign(x.m) * Sign(y.m) * (2 * q + sticky), x.e - y.e - (Precision + 2) - 1)

\* x <= y on floats; false when either is NaN.
FLeq(x, y) ==
    IF IsNaN(x) \/ IsNaN(y) THEN FALSE
    ELSE IF x = y THEN TRUE
    ELSE IF ~IsFinite(x) THEN x = NInf
    ELSE IF ~IsFinite(y) THEN y = PInf
    ELSE FSign(FSub(x, y)) <= 0

\* np.exp: the Taylor polynomial of degree ExpTerms in Horner form.
RECURSIVE ExpHorner(_, _)
ExpHorner(x, k) ==
    IF k > ExpTerms THEN One
    ELSE FAdd(One, FMul(FDiv(x, FromInt(k)), ExpHorner(x, k + 1)))

Exp(x) ==
    IF IsNaN(x) THEN NaN
    ELSE IF x = PInf THEN PInf
    ELSE IF x = NInf THEN Zero
    ELSE IF x = Zero THEN One
    ELSE ExpHorner(x, 1)

\* ------------------------------------------------------------------------
\* Small helpers
\* ------------------------------------------------------------------------
Sites(s) == 0 .. (s.nx - 1)
Dirs == 0 .. 2

\* The sites that have a neighbour on both sides.
Interior(s) == 1 .. (s.nx - 2)

RECURSIVE SumOver(_, _)
SumOver(g, S) ==
    IF S = {} THEN Zero
    ELSE LET k == CHOOSE k \in S : \A j \in S : k <= j
         IN FAdd(g[k], SumOver(g, S \ {k}))

\* Total mass: the sum of f[d, i] over all directions and sites.
Mass(s) == SumOver([d \in Dirs |-> SumOver(s.f[d], Sites(s))], Dirs)

AllFinite(g, s) == \A d \in Dirs : \A i \in Sites(s) : IsFinite(g[d][i])

\* ------------------------------------------------------------------------
\* LatticeBoltzmannSolver
\* ------------------------------------------------------------------------
__init__(nx, nt, omega) ==
    [nx |-> nx, nt |-> nt, omega |-> omega, dx |-> One, dt |-> One,
     f |-> [d \in Dirs |-> [i \in 0 .. (nx - 1) |-> Zero]],
     rho |-> [i \in 0 .. (nx - 1) |-> One],
     u |-> [i \in 0 .. (nx - 1) |-> Zero],
     epsilon |-> [i \in 0 .. (nx - 1) |-> Zero],
     c |-> [d \in Dirs |-> FromInt(IF d = 0 THEN 0 ELSE IF d = 1 THEN 1 ELSE -1)],
     w |-> [d \in Dirs |-> IF d = 0 THEN FDiv(One, FromInt(3)) ELSE FDiv(One, FromInt(6))]]

\* One element of f_eq[i, :], evaluated in the order of the Python expression.
f_eq_at(w, rho, u, c, epsilon) ==
    LET u_eq == FAdd(u, c)
        poly == FSub(FAdd(FAdd(One, FMul(FromInt(3), u_eq)),
                          FMul(FDiv(FromInt(9), FromInt(2)), FMul(u_eq, u_eq))),
                     FMul(FDiv(FromInt(3), FromInt(2)), FMul(u, u)))
    IN FMul(FMul(FMul(w, rho), poly), Exp(epsilon))

\* A method is an operator from the object before the call to the object after
\* it (self) and the value returned (ret).
equilibrium_distribution_in_place(s) ==
    LET f_eq == [d \in Dirs |-> [i \in Sites(s) |->
                   f_eq_at(s.w[d], s.rho[i], s.u[i], s.c[d], s.epsilon[i])]]
    IN [self |-> [s EXCEPT !.f = f_eq], ret |-> f_eq]

equilibrium_distribution(s) ==
    [self |-> s,
     ret |-> [d \in Dirs |-> [i \in Sites(s) |->
                f_eq_at(s.w[d], s.rho[i], s.u[i], s.c[d], s.epsilon[i])]]]

relax_swapped(omega, f, f_eq) == FAdd(FMul(omega, f), FMul(FSub(One, omega), f_eq))

relax_unweighted(omega, f, f_eq) == FAdd(FMul(FSub(One, omega), f), f_eq)

\* (1 - omega) * f + omega * f_eq
relax(omega, f, f_eq) == FAdd(FMul(FSub(One, omega), f), FMul(omega, f_eq))

collision(s) ==
    LET r == equilibrium_distribution(s)
        s1 == r.self
    IN [s1 EXCEPT !.f = [d \in Dirs |-> [i \in Sites(s1) |->
                            relax(s1.omega, s1.f[d][i], r.ret[d][i])]]]

\* for i in range(1, nx): row[i] = row[i-1], in place
RECURSIVE stream_right(_, _, _)
stream_right(row, i, nx) ==
    IF i >= nx THEN row
    ELSE stream_right([row EXCEPT ![i] = row[i - 1]], i + 1, nx)

\* for i in range(nx-2, -1, -1): row[i] = row[i+1], in place
RECURSIVE stream_left(_, _)
stream_left(row, i) ==
    IF i < 0 THEN row
    ELSE stream_left([row EXCEPT ![i] = row[i + 1]], i - 1)

streaming_periodic(s) ==
    [s EXCEPT !.f = [d \in Dirs |-> [i \in Sites(s) |->
        IF d = 1 THEN s.f[1][(i + s.nx - 1) % s.nx]
        ELSE IF d = 2 THEN s.f[2][(i + 1) % s.nx]
        ELSE s.f[0][i]]]]

streaming(s) ==
    [s EXCEPT !.f = [s.f EXCEPT ![1] = stream_right(s.f[1], 1, s.nx),
                                ![2] = stream_left(s.f[2], s.nx - 2)]]

update_density_velocity(s) ==
    LET rho == [i \in Sites(s) |-> FAdd(FAdd(s.f[0][i], s.f[1][i]), s.f[2][i])]
    IN [s EXCEPT !.rho = rho,
                 !.u = [i \in Sites(s) |-> FDiv(FSub(s.f[1][i], s.f[2][i]), rho[i])]]

set_epsilon(s, epsilon) == [s EXCEPT !.epsilon = epsilon]

\* for n in range(self.nt): is there another iteration after n completed ones?
range_has_next_inclusive(s, n) == n <= s.nt

range_has_next(s, n) == n < s.nt

\* ------------------------------------------------------------------------
\* Inputs
\* ------------------------------------------------------------------------
Half == FDiv(One, FromInt(2))
Omegas == {Zero, Half, One}
NxVals == {1, 2, MaxNx}
NtVals == 0 .. MaxNt
SetupNtVals == {0, MaxNt}

\* The end-to-end scenario: nx = 10, nt = 5, omega = 1.0.
ScenarioArgs == <<10, 5, One>>
CtorArgs == (NxVals \X NtVals \X Omegas) \cup {ScenarioArgs}

EpsilonInputs(nx) ==
    {[i \in 0 .. (nx - 1) |-> IF i = 0 THEN One ELSE Zero],
     [i \in 0 .. (nx - 1) |-> IF i = nx - 1 THEN FNeg(One) ELSE Zero]}

\* Fields a caller sets up on a solver s: <<rho, u, f>>, with rho and u
\* uniform and f either their equilibrium distribution or given populations.
Uniform(s, x) == [i \in Sites(s) |-> x]
Equilibrium(s, rho, u) ==
    equilibrium_distribution([s EXCEPT !.rho = Uniform(s, rho), !.u = Uniform(s, u)]).ret
Setups(s) ==
    {<<One, Zero, Equilibrium(s, One, Zero)>>,
     <<FromInt(2), Half, Equilibrium(s, FromInt(2), Half)>>,
     <<One, Zero, [d \in Dirs |-> [i \in Sites(s) |->
        IF d = 0 THEN One ELSE FromInt(i + d)]]>>,
     <<FromInt(2), Half, [d \in Dirs |-> [i \in Sites(s) |->
        IF d = 0 THEN One ELSE IF d = 1 /\ i = 0 THEN FromInt(3) ELSE Zero]]>>,
     <<One, Zero, [d \in Dirs |-> [i \in Sites(s) |->
        IF d = 2 THEN FromInt(i - 1) ELSE IF i = 0 THEN Zero ELSE Half]]>>}

\* ------------------------------------------------------------------------
\* State
\* ------------------------------------------------------------------------
VARIABLES
    solver,   \* the LatticeBoltzmannSolver object
    pc,       \* "idle", or the stage evolve() runs next
    n,        \* evolve()'s loop variable: completed iterations
    calls,    \* method calls made by the caller so far
    last,     \* the operation that ran last
    old,      \* the object before that operation
    rets,     \* the caller's equilibrium_distribution() calls: inputs and result
    step0,    \* the object at the start of the current (or last) time step
    entry,    \* the object when evolve() was last called
    trace     \* the stages run by the current (or last) evolve(), then "return"

vars == <<solver, pc, n, calls, last, old, rets, step0, entry, trace>>

Start(s, how) ==
    /\ solver = s
    /\ pc = "idle"
    /\ n = 0
    /\ calls = 0
    /\ last = how
    /\ old = s
    /\ rets = <<>>
    /\ step0 = s
    /\ entry = s
    /\ trace = <<>>

\* The state after construction.
Init == \E a \in CtorArgs : Start(__init__(a[1], a[2], a[3]), "__init__")

\* The state after construction and the caller's setup of rho, u and f.
InitSetup ==
    \E a \in NxVals \X SetupNtVals \X Omegas :
        LET s0 == __init__(a[1], a[2], a[3])
        IN \E su \in Setups(s0) :
              Start([s0 EXCEPT !.rho = Uniform(s0, su[1]), !.u = Uniform(s0, su[2]),
                               !.f = su[3]], "setup")

\* ------------------------------------------------------------------------
\* The caller's calls of single methods
\* ------------------------------------------------------------------------
CanCall == pc = "idle" /\ calls < MaxCalls

Ran(op, s) ==
    /\ solver' = s
    /\ last' = op
    /\ old' = solver

CallEquilibrium ==
    /\ CanCall
    /\ LET r == equilibrium_distribution(solver)
       IN /\ Ran("equilibrium_distribution", r.self)
          /\ rets' = Append(rets, [rho |-> solver.rho, u |-> solver.u,
                                   epsilon |-> solver.epsilon, f_eq |-> r.ret])
    /\ calls' = calls + 1
    /\ UNCHANGED <<pc, n, step0, entry, trace>>

CallCollision ==
    /\ CanCall
    /\ Ran("collision", collision(solver))
    /\ calls' = calls + 1
    /\ UNCHANGED <<pc, n, rets, step0, entry, trace>>

CallStreaming ==
    /\ CanCall
    /\ Ran("streaming", streaming(solver))
    /\ calls' = calls + 1
    /\ UNCHANGED <<pc, n, rets, step0, entry, trace>>

CallUpdate ==
    /\ CanCall
    /\ Ran("update_density_velocity", update_density_velocity(solver))
    /\ calls' = calls + 1
    /\ UNCHANGED <<pc, n, rets, step0, entry, trace>>

SetEpsilon ==
    /\ CanCall
    /\ \E eps \in EpsilonInputs(solver.nx) : Ran("set_epsilon", set_epsilon(solver, eps))
    /\ calls' = calls + 1
    /\ UNCHANGED <<pc, n, rets, step0, entry, trace>>

\* ------------------------------------------------------------------------
\* evolve()
\* ------------------------------------------------------------------------
EvolveCall ==
    /\ CanCall
    /\ calls' = calls + 1
    /\ pc' = "loop"
    /\ n' = 0
    /\ entry' = solver
    /\ trace' = <<>>
    /\ UNCHANGED <<solver, last, old, rets, step0>>

EvolveLoop ==
    /\ pc = "loop"
    /\ IF range_has_next(solver, n)
       THEN /\ pc' = "collision"
            /\ step0' = solver
            /\ UNCHANGED trace
       ELSE /\ pc' = "idle"
            /\ trace' = Append(trace, "return")
            /\ UNCHANGED step0
    /\ UNCHANGED <<solver, n, calls, last, old, rets, entry>>

EvolveCollision ==
    /\ pc = "collision"
    /\ Ran("collision", collision(solver))
    /\ pc' = "streaming"
    /\ trace' = Append(trace, "collision")
    /\ UNCHANGED <<n, calls, rets, step0, entry>>

EvolveStreaming ==
    /\ pc = "streaming"
    /\ Ran("streaming", streaming(solver))
    /\ pc' = "update"
    /\ trace' = Append(trace, "streaming")
    /\ UNCHANGED <<n, calls, rets, step0, entry>>

EvolveUpdate ==
    /\ pc = "update"
    /\ Ran("update_density_velocity", update_density_velocity(solver))
    /\ pc' = "loop"
    /\ n' = n + 1
    /\ trace' = Append(trace, "update_density_velocity")
    /\ UNCHANGED <<calls, rets, step0, entry>>

EvolveStep == EvolveLoop \/ EvolveCollision \/ EvolveStreaming \/ EvolveUpdate

Next ==
    \/ CallEquilibrium
    \/ CallCollision
    \/ CallStreaming
    \/ CallUpdate
    \/ SetEpsilon
    \/ EvolveCall
    \/ EvolveLoop
    \/ EvolveCollision
    \/ EvolveStreaming
    \/ EvolveUpdate

Spec == Init /\ [][Next]_vars
SpecSetup == InitSetup /\ [][Next]_vars
\* evolve() runs to completion once called: nothing suspends or cancels it, so
\* control always moves on from the stage it is at.  Under Next the steps that
\* change pc away from a stage are exactly the steps of EvolveStep, and one is
\* enabled exactly when pc # "idle".
EvolveAdvances ==
    /\ pc # "idle"
    /\ pc' \in {"idle", "loop", "collision", "streaming", "update"}
    /\ pc' # pc

SpecFair == Init /\ [][Next]_vars /\ WF_pc(EvolveAdvances)

\* ------------------------------------------------------------------------
\* Properties
\* ------------------------------------------------------------------------
NonZeroSomewhere(g, s) == \E d \in Dirs : \E i \in Sites(s) : g[d][i] # Zero

\* A time step of evolve() has just been completed; step0 is the object at
\* its start.
StepDone == pc = "loop" /\ n > 0

Returned == trace # <<>> /\ trace[Len(trace)] = "return"

\* C1 (as stated): streaming() leaves f[1, nx-1] and f[2, 0] at their
\* pre-streaming values, for every lattice with nx >= 2.
C1_EdgeSitesRetained ==
    (last = "streaming" /\ solver.nx >= 2) =>
        /\ solver.f[1][solver.nx - 1] = old.f[1][old.nx - 1]
        /\ solver.f[2][0] = old.f[2][0]

\* C1 (amended): streaming() leaves the sites with no upstream neighbour at
\* their pre-streaming values: f[1, 0] (leftmost, direction +1) and
\* f[2, nx-1] (rightmost, direction -1), for every lattice with nx >= 2.
C1_InflowSitesRetained ==
    (last = "streaming" /\ solver.nx >= 2) =>
        /\ solver.f[1][0] = old.f[1][0]
        /\ solver.f[2][solver.nx - 1] = old.f[2][old.nx - 1]

C1_Witness ==
    /\ last = "streaming"
    /\ solver.nx >= 2
    /\ old.f[1][0] # old.f[1][old.nx - 1]
    /\ old.f[2][0] # old.f[2][old.nx - 1]

\* C2: streaming() gives every interior site its upstream neighbour's value
\* from before the call: f[1, i] = old f[1, i-1] and f[2, i] = old f[2, i+1].
C2_InteriorGetsUpstream ==
    last = "streaming" =>
        \A i \in Interior(solver) :
            /\ solver.f[1][i] = old.f[1][i - 1]
            /\ solver.f[2][i] = old.f[2][i + 1]

\* C3: with omega = 0, zero epsilon and non-negative populations, the total
\* mass after a time step of evolve() is at most the mass before that step.
NonNegative(g, s) == \A d \in Dirs : \A i \in Sites(s) : FLeq(Zero, g[d][i])

C3_MassNeverIncreases ==
    (/\ StepDone
     /\ solver.omega = Zero
     /\ \A i \in Sites(solver) : solver.epsilon[i] = Zero
     /\ NonNegative(step0.f, step0)
     /\ AllFinite(step0.f, step0)
     /\ AllFinite(solver.f, solver))
    => FLeq(Mass(solver), Mass(step0))

\* C4: evolve() runs collision, streaming, update_density_velocity in that
\* order, once each per step, for exactly nt steps, returns only then (with
\* nt = 0 nothing runs and the object is unchanged), and always returns.
StageOrder == <<"collision", "streaming", "update_density_velocity">>

Stages == IF Returned THEN SubSeq(trace, 1, Len(trace) - 1) ELSE trace

C4_Shape ==
    /\ \A k \in 1 .. Len(Stages) : Stages[k] = StageOrder[((k - 1) % 3) + 1]
    /\ Returned => Len(Stages) = 3 * solver.nt
    /\ (pc = "loop" /\ n = 0) => solver = entry
    /\ pc \in {"loop", "collision"} => Len(trace) = 3 * n
    /\ pc = "streaming" => Len(trace) = 3 * n + 1
    /\ pc = "update" => Len(trace) = 3 * n + 2
    /\ pc = "idle" => (trace = <<>> \/ Returned)
    /\ pc # "idle" => ~Returned

\* The step on which evolve() returns.
C4_Return ==
    (pc # "idle" /\ pc' = "idle") =>
        /\ n = solver.nt
        /\ Len(trace) = 3 * solver.nt
        /\ trace' = Append(trace, "return")
        /\ solver' = solver

C4_EvolveRunsNtSteps ==
    /\ [](C4_Shape)
    /\ [][C4_Return]_vars
    /\ (pc # "idle") ~> (pc = "idle" /\ Returned)

C4_Witness == Returned /\ solver.nt >= 2 /\ Len(trace) = 3 * solver.nt + 1

\* C5: with omega = 1, collision() sets f to the equilibrium distribution of
\* the rho, u and epsilon held at the start of the call, whatever finite f was.
C5_FullRelaxation ==
    (last = "collision" /\ old.omega = One /\ AllFinite(old.f, old)) =>
        solver.f = equilibrium_distribution(old).ret

C5_Witness ==
    /\ last = "collision"
    /\ old.omega = One
    /\ AllFinite(old.f, old)
    /\ NonZeroSomewhere(old.f, old)
    /\ old.f # equilibrium_distribution(old).ret

\* C6: with omega = 0, collision() leaves f unchanged, for finite f and a
\* finite equilibrium distribution.
C6_NoRelaxation ==
    (/\ last = "collision"
     /\ old.omega = Zero
     /\ AllFinite(old.f, old)
     /\ AllFinite(equilibrium_distribution(old).ret, old))
    => solver.f = old.f

C6_Witness ==
    /\ last = "collision"
    /\ old.omega = Zero
    /\ AllFinite(old.f, old)
    /\ AllFinite(equilibrium_distribution(old).ret, old)
    /\ NonZeroSomewhere(old.f, old)
    /\ old.f # equilibrium_distribution(old).ret

\* C7: a call of equilibrium_distribution() changes no field of the object,
\* and two calls made with the same rho, u and epsilon return the same f_eq.
C7_EquilibriumIsPure ==
    /\ last = "equilibrium_distribution" => solver = old
    /\ \A j, k \in 1 .. Len(rets) :
          (/\ rets[j].rho = rets[k].rho
           /\ rets[j].u = rets[k].u
           /\ rets[j].epsilon = rets[k].epsilon)
          => rets[j].f_eq = rets[k].f_eq

C7_Witness ==
    /\ last = "equilibrium_distribution"
    /\ Len(rets) >= 2
    /\ rets[1].rho = rets[2].rho
    /\ rets[1].u = rets[2].u
    /\ rets[1].epsilon = rets[2].epsilon
    /\ NonZeroSomewhere(rets[2].f_eq, solver)

\* C8: with uniform rho and u, zero epsilon, omega = 0 and f initialised to
\* the equilibrium distribution, one full step leaves rho and u unchanged at
\* every interior site.
IsUniform(g, s) == \A i, j \in Sites(s) : g[i] = g[j]

C8_UniformEquilibriumKept ==
    (/\ StepDone
     /\ step0.omega = Zero
     /\ \A i \in Sites(step0) : step0.epsilon[i] = Zero
     /\ IsUniform(step0.rho, step0)
     /\ IsUniform(step0.u, step0)
     /\ step0.f = equilibrium_distribution(step0).ret)
    => \A i \in Interior(solver) :
          solver.rho[i] = step0.rho[i] /\ solver.u[i] = step0.u[i]

\* C9: constructed with nx = 10, nt = 5, omega = 1.0 and left at its
\* defaults, after evolve() rho is close to 1.0 at every interior site and u
\* is close to 0.0 at every site.
Tolerance == Half

Close(x, y) == FLeq(FSub(x, y), Tolerance) /\ FLeq(FSub(y, x), Tolerance)

C9_ScenarioStaysAtRest ==
    (/\ <<solver.nx, solver.nt, solver.omega>> = ScenarioArgs
     /\ entry = __init__(ScenarioArgs[1], ScenarioArgs[2], ScenarioArgs[3])
     /\ pc = "idle"
     /\ Returned)
    => /\ \A i \in Interior(solver) : Close(solver.rho[i], One)
       /\ \A i \in Sites(solver) : Close(solver.u[i], Zero)

\* C10: right after construction and after each completed time step of
\* evolve(), rho[i] = f[0, i] + f[1, i] + f[2, i] and, where rho[i] is not
\* zero, u[i] * rho[i] = f[1, i] - f[2, i], at every site i.
C10_MacroscopicMatchesF ==
    (calls = 0 \/ StepDone) =>
        \A i \in Sites(solver) :
            /\ solver.rho[i] = FAdd(FAdd(solver.f[0][i], solver.f[1][i]), solver.f[2][i])
            /\ solver.rho[i] # Zero =>
                  FMul(solver.u[i], solver.rho[i]) = FSub(solver.f[1][i], solver.f[2][i])
====
